---- MODULE Spec2Model ----
(***************************************************************************)
(* The issue answering agent (contributing/samples/adk_repo_answering_agent)*)
(* and the issue triaging agent (contributing/samples/adk_triaging_agent)   *)
(* as state machines.                                                       *)
(*                                                                          *)
(* The answering agent's behaviour is the instruction of root_agent         *)
(* (agent.py 105-139) executed by the LLM runtime over the tools of         *)
(* agent.py; the model takes the instruction as the program: each numbered  *)
(* step is one action, each "do not respond" is a Skip.  What the           *)
(* instruction leaves to the model's judgment (is the comment a question,   *)
(* is the issue a feature request, did the search find an answer) and what  *)
(* the network does (a request succeeds or raises) are inputs.  The reason  *)
(* codes of a Skip are the specification's names; where several conditions  *)
(* of step 4 fail, the first one in the instruction's order names the Skip. *)
(*                                                                          *)
(* Strings the program takes apart (document paths, URLs) are sequences of  *)
(* tokens: "gs:", "/", a name, an extension such as ".html".                *)
(***************************************************************************)
EXTENDS Naturals, Sequences, FiniteSets, TLC

VARIABLES
  pipeline,   \* "answering" or "triage": which entry point runs
  env,        \* the settings read at import: IS_INTERACTIVE, EVENT_NAME, ISSUE_NUMBER, ISSUE_COUNT_TO_PROCESS
  tracker,    \* the remote tracker: issue number -> [state, labels, comments]
  mainPc,     \* the entry point's position: "start", "running", "exited"
  mode,       \* what the entry point decided: "none", "single", "batch", "invalid"
  runs,       \* how many times the entry point has been started
  todo,       \* issue numbers the running agent has still to process
  inst,       \* the issue instance in progress (or the last finished one)
  log,        \* the finished instances of this run, in order
  landed,     \* comments of the engine that reached the tracker, over all runs
  foreign,    \* comments added by anyone else since the first run started
  rw,         \* the citation rewriter's input and outputs
  sync        \* the document sync script: its position, the local files, the bucket

vars == <<pipeline, env, tracker, mainPc, mode, runs, todo, inst, log, landed, foreign, rw,
          sync>>

(***************************************************************************)
(* Bounds of the model.                                                    *)
(***************************************************************************)
NumIssues == 2      \* issues the tracker holds
MaxRuns == 2        \* consecutive runs of the answering entry point
MaxForeign == 1     \* comments others add while the model runs
MaxRelSegs == 2     \* directory depth of a document's relative path
MaxFiles == 3       \* files under the directory the sync script uploads

(***************************************************************************)
(* Token strings.                                                          *)
(***************************************************************************)
StartsWith(s, p) == Len(s) >= Len(p) /\ SubSeq(s, 1, Len(p)) = p

EndsWith(s, p) == Len(s) >= Len(p) /\ SubSeq(s, Len(s) - Len(p) + 1, Len(s)) = p

\* Position of the first "/" of s, or 0
FirstSlash(s) ==
  IF \E i \in 1..Len(s) : s[i] = "/"
  THEN CHOOSE i \in 1..Len(s) : s[i] = "/" /\ \A j \in 1..(i - 1) : s[j] # "/"
  ELSE 0

(***************************************************************************)
(* Citation URLs (agent.py 130-138).  The instruction gives three ordered  *)
(* string transforms; it has no failure case.                              *)
(***************************************************************************)
GsScheme == <<"gs:", "/", "/">>

GitHubPrefix == <<"https:", "/", "/", "github.com", "/", "google", "/">>

BlobMain == <<"blob", "/", "main", "/">>

\* Replace the "gs://prefix/" part by "https://github.com/google/" (line 132).
\* A string without that part is left as it is.
ReplaceGsPrefix(p) ==
  IF StartsWith(p, GsScheme)
  THEN LET rest == SubSeq(p, Len(GsScheme) + 1, Len(p))
           k == FirstSlash(rest)
       IN IF k = 0 THEN p
          ELSE GitHubPrefix \o SubSeq(rest, k + 1, Len(rest))
  ELSE p

\* Add "blob/main/" after the repo name (line 133).
AddBlobMain(u) ==
  IF StartsWith(u, GitHubPrefix)
  THEN LET rest == SubSeq(u, Len(GitHubPrefix) + 1, Len(u))
           k == FirstSlash(rest)
       IN IF k = 0 THEN u
          ELSE GitHubPrefix \o SubSeq(rest, 1, k) \o BlobMain
                 \o SubSeq(rest, k + 1, Len(rest))
  ELSE u

\* A slip: every ".html" of the URL replaced, not the file's extension
HtmlToMdEverywhere(u) == [i \in 1..Len(u) |-> IF u[i] = ".html" THEN ".md" ELSE u[i]]

\* If the file is a html file, replace the ".html" to be ".md" (line 138).
HtmlToMd(u) ==
  IF EndsWith(u, <<".html">>)
  THEN SubSeq(u, 1, Len(u) - 1) \o <<".md">>
  ELSE u

CitationUrl(p) == HtmlToMd(AddBlobMain(ReplaceGsPrefix(p)))

\* <scheme>://<bucket>/<repoName>/<relativePath> as a token string
DocPath(scheme, bucket, repo, rel) ==
  <<scheme, "/", "/", bucket, "/", repo, "/">> \o rel

Schemes == {"gs:", "s3:"}

Buckets == {"bucket", "adk-qa-bucket"}

Repos == {"adk-python", "adk-docs"}

DirNames == {<<"docs">>, <<"old", ".html">>}

FileNames == {<<"version", ".py">>, <<"index", ".md">>, <<"index", ".html">>,
              <<"index", ".html", ".py">>}

RECURSIVE RelPaths(_)
\* Relative paths with at most n directories
RelPaths(n) ==
  IF n = 0 THEN FileNames
  ELSE FileNames \cup {d \o <<"/">> \o r : d \in DirNames, r \in RelPaths(n - 1)}

\* The sync script before it runs, over no files and an empty bucket
SyncIdle ==
  [pc |-> "start", isdir |-> TRUE, files |-> <<>>, bucket |-> {}, i |-> 0,
   cleanup |-> "none", upload |-> "none", import |-> "none",
   order |-> <<>>, uploaded |-> <<>>, failedAt |-> 0, errors |-> 0, imports |-> 0]

RwIdle == [scheme |-> "", bucket |-> "", repo |-> "", rel |-> <<>>,
           calls |-> 0, url1 |-> <<>>, url2 |-> <<>>]

(***************************************************************************)
(* Settings and the tracker.                                               *)
(***************************************************************************)
\* Values the number settings take: unset, not a number, zero, an issue
NumberStrings == {"", "abc", "0", "1"}

\* utils.parse_number_string, from its callers (answering main.py 65-66,
\* triage main.py 69-70 and 81): the number the string spells, or
\* default_value when it spells none
parse_number_string(number_str, default_value) ==
  CASE number_str = "0" -> 0
    [] number_str = "1" -> 1
    [] number_str = "2" -> 2
    [] OTHER -> default_value

\* The closed enumeration of labels
Labels == {"bug", "documentation"}

Issues == 1..NumIssues

IssueStates == {"open", "closed"}

\* A comment: who wrote it, whether its body carries the bolded
\* "Response from ... Agent" marker, and its footnote URLs
Comment(author, marker, cites) ==
  [author |-> author, marker |-> marker, cites |-> cites]

CommentKinds ==
  {Comment(a, m, <<>>) : a \in {"reporter", "other", "agent"}, m \in BOOLEAN}

FreshIssue == [state |-> "open", labels |-> {}, comments |-> <<>>]

InstIdle ==
  [id |-> 0, pc |-> "Idle", state |-> "", labels |-> {}, comments |-> <<>>,
   verdict |-> "none", reason |-> "", docs |-> <<>>, cites |-> <<>>,
   retrievals |-> 0, label |-> "", approval |-> "none", writes |-> <<>>,
   reads |-> 0, result |-> "none"]

\* The answering entry point is aimed at issue 1, whose state and comment
\* history are arbitrary; it has no EVENT_NAME or ISSUE_COUNT_TO_PROCESS.
InitAnswering ==
  /\ pipeline = "answering"
  /\ env \in [IS_INTERACTIVE : BOOLEAN, EVENT_NAME : {""},
              ISSUE_NUMBER : NumberStrings, ISSUE_COUNT_TO_PROCESS : {""}]
  /\ \E st \in IssueStates, cs \in {<<>>} \cup {<<c>> : c \in CommentKinds} :
       tracker = [i \in Issues |->
                    IF i = 1 THEN [state |-> st, labels |-> {}, comments |-> cs]
                    ELSE FreshIssue]

\* The triage entry point sees issues of any state, labelled or not.
InitTriage ==
  /\ pipeline = "triage"
  /\ env \in [IS_INTERACTIVE : BOOLEAN, EVENT_NAME : {"issues", "schedule"},
              ISSUE_NUMBER : NumberStrings, ISSUE_COUNT_TO_PROCESS : {"", "1"}]
  /\ tracker \in [Issues -> [state : IssueStates, labels : {{}, {"bug"}},
                             comments : {<<>>}]]

Init ==
  /\ InitAnswering \/ InitTriage
  /\ mainPc = "start"
  /\ mode = "none"
  /\ runs = 0
  /\ todo = <<>>
  /\ inst = InstIdle
  /\ log = <<>>
  /\ landed = 0
  /\ foreign = 0
  /\ rw = RwIdle
  /\ sync = SyncIdle

(***************************************************************************)
(* The entry points.                                                       *)
(***************************************************************************)
DefaultIssueCount == 3

RECURSIVE MostRecent(_, _)
\* The n most recent issues from issue `top` down, newest first
MostRecent(n, top) ==
  IF n = 0 \/ top = 0 THEN <<>> ELSE <<top>> \o MostRecent(n - 1, top - 1)

\* A slip: the check of the parsed number left out
InvalidIssueNumberUnchecked(issue_number) == FALSE

\* main.py 65-68: `if not issue_number`
InvalidIssueNumber(issue_number) == issue_number = 0

\* adk_repo_answering_agent/main.py main(): one prompt for one issue, or
\* the error and return
main ==
  /\ pipeline = "answering"
  /\ mainPc = "start"
  /\ runs' = runs + 1
  /\ LET issue_number == parse_number_string(env.ISSUE_NUMBER, 0)
     IN IF InvalidIssueNumber(issue_number)
        THEN mode' = "invalid" /\ mainPc' = "exited" /\ todo' = <<>>
        ELSE mode' = "single" /\ mainPc' = "running" /\ todo' = <<issue_number>>
  /\ UNCHANGED <<sync, pipeline, env, tracker, inst, log, landed, foreign, rw>>

\* main.py 67: `EVENT_NAME == "issues" and ISSUE_NUMBER`
SpecificIssue == env.EVENT_NAME = "issues" /\ env.ISSUE_NUMBER # ""

\* A slip: one issue more than configured
issue_count_plus_one ==
  parse_number_string(env.ISSUE_COUNT_TO_PROCESS, DefaultIssueCount) + 1

\* main.py 81: the number of issues of a batch
issue_count == parse_number_string(env.ISSUE_COUNT_TO_PROCESS, DefaultIssueCount)

\* adk_triaging_agent/main.py main_sync(): a specific issue, or the batch
main_sync ==
  /\ pipeline = "triage"
  /\ mainPc = "start"
  /\ runs' = runs + 1
  /\ IF SpecificIssue
     THEN LET issume_number == parse_number_string(env.ISSUE_NUMBER, 0)
          IN IF InvalidIssueNumber(issume_number)
             THEN mode' = "invalid" /\ mainPc' = "exited" /\ todo' = <<>>
             ELSE mode' = "single" /\ mainPc' = "running"
                  /\ todo' = <<issume_number>>
     ELSE mode' = "batch" /\ mainPc' = "running"
          /\ todo' = MostRecent(issue_count, NumIssues)
  /\ UNCHANGED <<sync, pipeline, env, tracker, inst, log, landed, foreign, rw>>

(***************************************************************************)
(* One issue instance at a time: Idle, FetchingTarget, ..., Done.          *)
(***************************************************************************)
Working == inst.pc \notin {"Idle", "Done"}

\* The instance ends: its record is final and goes to the run's log
Finish(final) ==
  /\ inst' = [final EXCEPT !.pc = "Done"]
  /\ log' = Append(log, [final EXCEPT !.pc = "Done"])

\* The agent turns to the next issue of its prompt
StartInstance ==
  /\ mainPc = "running"
  /\ ~Working
  /\ todo # <<>>
  /\ inst' = [InstIdle EXCEPT !.id = Head(todo), !.pc = "FetchingTarget"]
  /\ todo' = Tail(todo)
  /\ UNCHANGED <<sync, pipeline, env, tracker, mainPc, mode, runs, log, landed, foreign, rw>>

\* call_agent_async returns the final response and the entry point ends
AgentReturns ==
  /\ mainPc = "running"
  /\ ~Working
  /\ todo = <<>>
  /\ mainPc' = "exited"
  /\ UNCHANGED <<sync, pipeline, env, tracker, mode, runs, todo, inst, log, landed, foreign, rw>>

\* The answering entry point is started again on the same issue
Rerun ==
  /\ pipeline = "answering"
  /\ mainPc = "exited"
  /\ runs < MaxRuns
  /\ mainPc' = "start"
  /\ mode' = "none"
  /\ inst' = InstIdle
  /\ log' = <<>>
  /\ UNCHANGED <<sync, pipeline, env, tracker, runs, todo, landed, foreign, rw>>

\* Someone other than the engine comments on the issue
ExternalComment ==
  /\ pipeline = "answering"
  /\ foreign < MaxForeign
  /\ \E a \in {"reporter", "other"}, m \in BOOLEAN :
       tracker' = [tracker EXCEPT ![1].comments = Append(@, Comment(a, m, <<>>))]
  /\ foreign' = foreign + 1
  /\ UNCHANGED <<sync, pipeline, env, mainPc, mode, runs, todo, inst, log, landed, rw>>

(***************************************************************************)
(* The answering agent (agent.py).                                         *)
(***************************************************************************)
\* A slip: the closed state not looked at
ClosedRuleIgnored(state) == FALSE

\* Step 1, "If the issue is closed, do not respond" (agent.py 110-111)
ClosedRule(state) == state = "closed"

\* get_issue (agent.py 40-55): the issue, or an error response
get_issue ==
  /\ pipeline = "answering"
  /\ inst.pc = "FetchingTarget"
  /\ \E ok \in BOOLEAN :
       /\ ok => inst.id \in Issues
       /\ LET got == [inst EXCEPT !.reads = @ + 1,
                                  !.state = IF ok THEN tracker[inst.id].state ELSE "",
                                  !.labels = IF ok THEN tracker[inst.id].labels ELSE {}]
          IN IF ~ok
             THEN Finish([got EXCEPT !.verdict = "Error", !.reason = "fetch-error"])
             ELSE IF ClosedRule(got.state)
             THEN Finish([got EXCEPT !.verdict = "Skip", !.reason = "closed"])
             ELSE inst' = [got EXCEPT !.pc = "ListingComments"] /\ log' = log
  /\ UNCHANGED <<sync, pipeline, env, tracker, mainPc, mode, runs, todo, landed, foreign, rw>>

\* list_comments_on_issue (agent.py 82-98): the comments, or an error response
list_comments_on_issue ==
  /\ pipeline = "answering"
  /\ inst.pc = "ListingComments"
  /\ \E ok \in BOOLEAN :
       LET got == [inst EXCEPT !.reads = @ + 1,
                               !.comments = IF ok THEN tracker[inst.id].comments ELSE <<>>]
       IN IF ~ok
          THEN Finish([got EXCEPT !.verdict = "Error", !.reason = "fetch-error"])
          ELSE inst' = [got EXCEPT !.pc = "Evaluating"] /\ log' = log
  /\ UNCHANGED <<sync, pipeline, env, tracker, mainPc, mode, runs, todo, landed, foreign, rw>>

\* A slip: the two conditions on who wrote the latest comment left out
AnsweringGateNoAuthorCheck(comments, isQuestion, isFeature) ==
  IF ~isQuestion THEN "not-a-question"
  ELSE IF isFeature THEN "feature-request"
  ELSE ""

\* Steps 3 and 4 (agent.py 113-119): the conditions on the latest comment, in
\* the instruction's order; "" when all are met.  With no comment at all the
\* agent looks at the issue itself, which its reporter wrote.
AnsweringGate(comments, isQuestion, isFeature) ==
  LET last == comments[Len(comments)]
  IN IF comments # <<>> /\ last.author # "reporter" THEN "not-reporter"
     ELSE IF comments # <<>> /\ last.marker THEN "already-responded"
     ELSE IF ~isQuestion THEN "not-a-question"
     ELSE IF isFeature THEN "feature-request"
     ELSE ""

\* The agent judges the latest comment (the classifier's signals are inputs)
Evaluate ==
  /\ pipeline = "answering"
  /\ inst.pc = "Evaluating"
  /\ \E isQuestion \in BOOLEAN, isFeature \in BOOLEAN :
       LET why == AnsweringGate(inst.comments, isQuestion, isFeature)
       IN IF why # ""
          THEN Finish([inst EXCEPT !.verdict = "Skip", !.reason = why])
          ELSE inst' = [inst EXCEPT !.verdict = "Act", !.pc = "Retrieving"] /\ log' = log
  /\ UNCHANGED <<sync, pipeline, env, tracker, mainPc, mode, runs, todo, landed, foreign, rw>>

\* The fixtures' documents, and one from another store
DocPy == DocPath("gs:", "bucket", "adk-python",
                 <<"src", "/", "google", "/", "adk", "/", "version", ".py">>)

DocHtml == DocPath("gs:", "bucket", "adk-docs", <<"docs", "/", "index", ".html">>)

DocOther == DocPath("s3:", "bucket", "adk-docs", <<"docs", "/", "index", ".html">>)

\* What the search can come back with: nothing, or ranked documents
SearchResults == {<<>>, <<DocPy>>, <<DocHtml, DocPy>>, <<DocOther>>, <<DocPy, DocOther>>}

\* A slip: an empty search result not told from a found answer
NoEvidenceIgnored(docs) == FALSE

\* "If you can't find the answer or information in the document store,
\* **do not** respond" (agent.py 124)
NoEvidence(docs) == docs = <<>>

\* Step 5 (agent.py 120): the VertexAiSearchTool is used before answering
Retrieve ==
  /\ pipeline = "answering"
  /\ inst.pc = "Retrieving"
  /\ \E docs \in SearchResults :
       LET got == [inst EXCEPT !.retrievals = @ + 1, !.docs = docs]
       IN IF NoEvidence(docs)
          THEN Finish([got EXCEPT !.verdict = "Skip", !.reason = "no-evidence"])
          ELSE inst' = [got EXCEPT !.pc = "Composing"] /\ log' = log
  /\ UNCHANGED <<sync, pipeline, env, tracker, mainPc, mode, runs, todo, landed, foreign, rw>>

WellFormed(p) == StartsWith(p, GsScheme)

\* A slip: the non-interactive instruction whatever IS_INTERACTIVE says
AsksApprovalNever == FALSE

\* APPROVAL_INSTRUCTION (agent.py 29-37)
AsksApproval == env.IS_INTERACTIVE

\* The footnotes (agent.py 130-138), one per document in rank order.  For a
\* document that has no "gs://prefix/" part the instruction says nothing:
\* the agent cites it as the transforms leave it, or as it came.
Compose ==
  /\ pipeline = "answering"
  /\ inst.pc = "Composing"
  /\ \E verbatim \in BOOLEAN :
       inst' = [inst EXCEPT
                  !.cites = [i \in 1..Len(inst.docs) |->
                               IF ~WellFormed(inst.docs[i]) /\ verbatim
                               THEN inst.docs[i]
                               ELSE CitationUrl(inst.docs[i])],
                  !.approval = IF AsksApproval THEN "waiting" ELSE "none",
                  !.pc = IF AsksApproval THEN "AwaitingApproval" ELSE "Acting"]
  /\ UNCHANGED <<sync, pipeline, env, tracker, mainPc, mode, runs, todo, log, landed, foreign, rw>>

\* The user confirms
Approve ==
  /\ inst.pc = "AwaitingApproval"
  /\ inst' = [inst EXCEPT !.approval = "approved", !.pc = "Acting"]
  /\ UNCHANGED <<sync, pipeline, env, tracker, mainPc, mode, runs, todo, log, landed, foreign, rw>>

\* The user refuses
Deny ==
  /\ inst.pc = "AwaitingApproval"
  /\ Finish([inst EXCEPT !.approval = "denied", !.verdict = "Skip", !.reason = "denied"])
  /\ UNCHANGED <<sync, pipeline, env, tracker, mainPc, mode, runs, todo, landed, foreign, rw>>

\* No answer comes: the run ends with the question asked (main.py sends one
\* prompt and returns with the agent's response, main.py 74-75)
ApprovalTimeout ==
  /\ inst.pc = "AwaitingApproval"
  /\ Finish([inst EXCEPT !.approval = "timeout", !.verdict = "Skip", !.reason = "denied"])
  /\ UNCHANGED <<sync, pipeline, env, tracker, mainPc, mode, runs, todo, landed, foreign, rw>>

\* "Include a bolded note ... in your comment" (agent.py 125-126)
EngineComment(cites) == Comment("agent", TRUE, cites)

\* A slip: a failed request sent once more
PostRequestsRetried(outcome) ==
  IF outcome = "ok" THEN <<"comment">> ELSE <<"comment", "comment">>

\* The requests one tool call makes: post_request once; a RequestException
\* becomes the error response (agent.py 72-75)
PostRequests(outcome) == <<"comment">>

\* The outcomes of a write: done, refused, or done with the reply lost
WriteOutcomes == {"ok", "error", "error-landed"}

\* add_comment_to_issue (agent.py 58-79)
add_comment_to_issue ==
  /\ pipeline = "answering"
  /\ inst.pc = "Acting"
  /\ \E outcome \in WriteOutcomes :
       /\ IF outcome = "error"
          THEN tracker' = tracker /\ landed' = landed
          ELSE /\ tracker' = [tracker EXCEPT ![inst.id].comments =
                                Append(@, EngineComment(inst.cites))]
               /\ landed' = landed + 1
       /\ LET tried == [inst EXCEPT !.writes = @ \o PostRequests(outcome)]
          IN IF outcome = "ok"
             THEN Finish([tried EXCEPT !.result = "ok"])
             ELSE Finish([tried EXCEPT !.result = "error", !.verdict = "Error",
                                       !.reason = "dispatch-error"])
  /\ UNCHANGED <<sync, pipeline, env, mainPc, mode, runs, todo, foreign, rw>>

(***************************************************************************)
(* The triaging agent.  Its prompt is main.py 73-82; its gate, classifier  *)
(* and dispatcher follow the design's sections 4.1, 4.2 and 4.4.           *)
(***************************************************************************)
\* getIssue: the issue, or NotFound
FetchTarget ==
  /\ pipeline = "triage"
  /\ inst.pc = "FetchingTarget"
  /\ \E ok \in BOOLEAN :
       /\ ok => inst.id \in Issues
       /\ LET got == [inst EXCEPT !.reads = @ + 1,
                                  !.state = IF ok THEN tracker[inst.id].state ELSE "",
                                  !.labels = IF ok THEN tracker[inst.id].labels ELSE {}]
          IN IF ~ok
             THEN Finish([got EXCEPT !.verdict = "Error", !.reason = "fetch-error"])
             ELSE inst' = [got EXCEPT !.pc = "Evaluating"] /\ log' = log
  /\ UNCHANGED <<sync, pipeline, env, tracker, mainPc, mode, runs, todo, landed, foreign, rw>>

\* A slip: labelled issues labelled again
AlreadyLabelledIgnored(labels) == FALSE

\* "If the issue is already labelled, please don't change it" (main.py 74-76)
AlreadyLabelled(labels) == labels # {}

\* Rules 1 and 3 of the gate, in order; "" when the issue is to be labelled
TriageGate(state, labels) ==
  IF ClosedRule(state) THEN "closed"
  ELSE IF AlreadyLabelled(labels) THEN "already-labeled"
  ELSE ""

EvaluateTriage ==
  /\ pipeline = "triage"
  /\ inst.pc = "Evaluating"
  /\ LET why == TriageGate(inst.state, inst.labels)
     IN IF why # ""
        THEN Finish([inst EXCEPT !.verdict = "Skip", !.reason = why])
        ELSE inst' = [inst EXCEPT !.verdict = "Act", !.pc = "Classifying"] /\ log' = log
  /\ UNCHANGED <<sync, pipeline, env, tracker, mainPc, mode, runs, todo, landed, foreign, rw>>

\* classify: one label of the enumeration, or a value outside it, which is
\* a classification failure
Classify ==
  /\ pipeline = "triage"
  /\ inst.pc = "Classifying"
  /\ \E out \in Labels \cup {"other"} :
       IF out \notin Labels
       THEN Finish([inst EXCEPT !.verdict = "Skip", !.reason = "classification-failure"])
       ELSE /\ inst' = [inst EXCEPT
                          !.label = out,
                          !.approval = IF AsksApproval THEN "waiting" ELSE "none",
                          !.pc = IF AsksApproval THEN "AwaitingApproval" ELSE "Acting"]
            /\ log' = log
  /\ UNCHANGED <<sync, pipeline, env, tracker, mainPc, mode, runs, todo, landed, foreign, rw>>

\* setLabel: the chosen label is added; the other labels stay
SetLabel ==
  /\ pipeline = "triage"
  /\ inst.pc = "Acting"
  /\ \E outcome \in WriteOutcomes :
       /\ tracker' = IF outcome = "error" THEN tracker
                     ELSE [tracker EXCEPT ![inst.id].labels = @ \cup {inst.label}]
       /\ LET tried == [inst EXCEPT !.writes = Append(@, "label")]
          IN IF outcome = "ok"
             THEN Finish([tried EXCEPT !.result = "ok"])
             ELSE Finish([tried EXCEPT !.result = "error", !.verdict = "Error",
                                       !.reason = "dispatch-error"])
  /\ UNCHANGED <<sync, pipeline, env, mainPc, mode, runs, todo, landed, foreign, rw>>

(***************************************************************************)
(* The specifications.                                                     *)
(***************************************************************************)
\* What the agent and its tools do on their own
AgentStep ==
  \/ StartInstance
  \/ get_issue
  \/ list_comments_on_issue
  \/ Evaluate
  \/ Retrieve
  \/ Compose
  \/ add_comment_to_issue
  \/ FetchTarget
  \/ EvaluateTriage
  \/ Classify
  \/ SetLabel
  \/ AgentReturns

\* One run of an entry point
RunNext ==
  \/ main
  \/ main_sync
  \/ AgentStep
  \/ Approve
  \/ Deny
  \/ ApprovalTimeout

Next ==
  \/ RunNext
  \/ Rerun
  \/ ExternalComment

Spec == Init /\ [][Next]_vars

\* An entry point that was started runs on: the agent takes its next step,
\* and an approval that nobody gives ends the run with the question asked.
FairRunSpec ==
  /\ Init /\ [][RunNext]_vars
  /\ WF_vars(main \/ main_sync)
  /\ WF_vars(AgentStep)
  /\ WF_vars(ApprovalTimeout)

(***************************************************************************)
(* The citation rewriter on its own: any document path, rewritten twice.   *)
(***************************************************************************)
RwPath == DocPath(rw.scheme, rw.bucket, rw.repo, rw.rel)

RewriteInit ==
  /\ pipeline = "rewriter"
  /\ env = [IS_INTERACTIVE |-> FALSE, EVENT_NAME |-> "", ISSUE_NUMBER |-> "",
            ISSUE_COUNT_TO_PROCESS |-> ""]
  /\ tracker = [i \in Issues |-> FreshIssue]
  /\ mainPc = "exited"
  /\ mode = "none"
  /\ runs = 0
  /\ todo = <<>>
  /\ inst = InstIdle
  /\ log = <<>>
  /\ landed = 0
  /\ foreign = 0
  /\ sync = SyncIdle
  /\ \E sc \in Schemes, b \in Buckets, r \in Repos, rel \in RelPaths(MaxRelSegs) :
       rw = [RwIdle EXCEPT !.scheme = sc, !.bucket = b, !.repo = r, !.rel = rel]

\* The agent writes the footnote of the document (agent.py 130-138)
RewriteCall ==
  /\ pipeline = "rewriter"
  /\ rw.calls < 2
  /\ rw' = [rw EXCEPT !.calls = @ + 1,
                      !.url1 = IF rw.calls = 0 THEN CitationUrl(RwPath) ELSE @,
                      !.url2 = IF rw.calls = 1 THEN CitationUrl(RwPath) ELSE @]
  /\ UNCHANGED <<sync, pipeline, env, tracker, mainPc, mode, runs, todo, inst, log, landed, foreign>>

RewriteNext == RewriteCall

RewriteSpec == RewriteInit /\ [][RewriteNext]_vars

(***************************************************************************)
(* The document sync script (scripts/upload_docs_to_vertex_ai_search.py).  *)
(* A local file is one of: a markdown file, a markdown file that converts  *)
(* to empty html, a python file, a file of another type, a file under a    *)
(* hidden directory.  An object of the bucket is <<0, name>> when it was   *)
(* there before the run and <<i, extension>> when file i was uploaded.     *)
(***************************************************************************)
FileKinds == {"md", "md-empty", "py", "txt", "hidden"}

RECURSIVE FileLists(_)
\* The walks of at most n files
FileLists(n) ==
  IF n = 0 THEN {<<>>}
  ELSE FileLists(n - 1) \cup
       {Append(fs, k) : fs \in {f \in FileLists(n - 1) : Len(f) = n - 1}, k \in FileKinds}

OldObjects == {<<0, "a">>, <<0, "b">>}

SyncInit ==
  /\ pipeline = "sync"
  /\ env = [IS_INTERACTIVE |-> FALSE, EVENT_NAME |-> "", ISSUE_NUMBER |-> "",
            ISSUE_COUNT_TO_PROCESS |-> ""]
  /\ tracker = [i \in Issues |-> FreshIssue]
  /\ mainPc = "exited"
  /\ mode = "none"
  /\ runs = 0
  /\ todo = <<>>
  /\ inst = InstIdle
  /\ log = <<>>
  /\ landed = 0
  /\ foreign = 0
  /\ rw = RwIdle
  /\ \E d \in BOOLEAN, fs \in FileLists(MaxFiles), b \in SUBSET OldObjects :
       sync = [SyncIdle EXCEPT !.isdir = d, !.files = fs, !.bucket = b]

SyncRest == <<pipeline, env, tracker, mainPc, mode, runs, todo, inst, log, landed, foreign, rw>>

\* cleanup_gcs_prefix (lines 23-40): every object is deleted and True is
\* returned; a GoogleAPICallError while listing or deleting gives False,
\* with whatever was deleted before it gone.  main returns on False
\* (lines 158-162).
cleanup_gcs_prefix ==
  /\ pipeline = "sync"
  /\ sync.pc = "start"
  /\ \E raised \in BOOLEAN, left \in SUBSET sync.bucket :
       /\ ~raised => left = {}
       /\ sync' = [sync EXCEPT !.order = Append(@, "cleanup"),
                               !.bucket = left,
                               !.cleanup = IF raised THEN "false" ELSE "true",
                               !.pc = IF raised THEN "exited" ELSE "upload"]
  /\ UNCHANGED SyncRest

\* upload_directory_to_gcs up to its loop (lines 47-57): False when the
\* source is no directory, and main returns (lines 165-172)
upload_directory_to_gcs ==
  /\ pipeline = "sync"
  /\ sync.pc = "upload"
  /\ sync' = [sync EXCEPT !.order = Append(@, "upload"),
                          !.i = 1,
                          !.upload = IF sync.isdir THEN "none" ELSE "false",
                          !.pc = IF sync.isdir THEN "uploading" ELSE "exited"]
  /\ UNCHANGED SyncRest

\* Lines 61 and 64: hidden directories are not walked, only .md and .py
\* files are kept
Kept(kind) == kind \in {"md", "md-empty", "py"}

\* Lines 83-85: a markdown file whose html is empty is skipped
Uploadable(kind) == kind \in {"md", "py"}

\* Line 86: a markdown file is stored as .html
ObjectOf(i, kind) == <<i, IF kind = "md" THEN "html" ELSE "py">>

\* A slip: the error printed and the loop going on to the next file
StopsOnUploadErrorNot == FALSE

\* Lines 103-105: the except clause returns False
StopsOnUploadError == TRUE

\* One turn of the loop over the files (lines 66-105).  Only a
\* GoogleAPICallError is caught: any other exception (the file cannot be
\* read) ends the script where it stands.
UploadFile ==
  /\ pipeline = "sync"
  /\ sync.pc = "uploading"
  /\ sync.i <= Len(sync.files)
  /\ LET kind == sync.files[sync.i]
         next == [sync EXCEPT !.i = @ + 1]
     IN IF ~Kept(kind) \/ ~Uploadable(kind)
        THEN sync' = next
        ELSE \E outcome \in {"ok", "api-error", "crash"} :
               IF outcome = "ok"
               THEN sync' = [next EXCEPT !.bucket = @ \cup {ObjectOf(sync.i, kind)},
                                         !.uploaded = Append(@, sync.i)]
               ELSE IF outcome = "crash"
               THEN sync' = [sync EXCEPT !.pc = "crashed"]
               ELSE IF StopsOnUploadError
               THEN sync' = [sync EXCEPT !.failedAt = sync.i, !.errors = @ + 1,
                                         !.upload = "false", !.pc = "exited"]
               ELSE sync' = [next EXCEPT !.failedAt = sync.i, !.errors = @ + 1]
  /\ UNCHANGED SyncRest

\* Lines 107-108: the loop is over, True is returned
UploadDone ==
  /\ pipeline = "sync"
  /\ sync.pc = "uploading"
  /\ sync.i > Len(sync.files)
  /\ sync' = [sync EXCEPT !.upload = "true", !.pc = "import"]
  /\ UNCHANGED SyncRest

\* import_from_gcs_to_vertex_ai (lines 111-152) and the end of main
\* (lines 175-186): the import is requested, or the request raises
import_from_gcs_to_vertex_ai ==
  /\ pipeline = "sync"
  /\ sync.pc = "import"
  /\ \E raised \in BOOLEAN :
       sync' = [sync EXCEPT !.order = Append(@, "import"),
                            !.imports = @ + 1,
                            !.import = IF raised THEN "false" ELSE "true",
                            !.pc = "exited"]
  /\ UNCHANGED SyncRest

SyncNext ==
  \/ cleanup_gcs_prefix
  \/ upload_directory_to_gcs
  \/ UploadFile
  \/ UploadDone
  \/ import_from_gcs_to_vertex_ai

SyncSpec == SyncInit /\ [][SyncNext]_vars

(***************************************************************************)
(* Claims.                                                                 *)
(***************************************************************************)
\* The instances of the current run: the finished ones and the one in progress
Insts == {inst} \cup {log[i] : i \in DOMAIN log}

Skipped(rec, why) == rec.pc = "Done" /\ rec.verdict = "Skip" /\ rec.reason = why

\* C1: an instance makes at most one write attempt against the tracker,
\* whatever its verdict, the approval setting and the outcome of the call:
\* never a label and a comment, never two of either, and a write that failed
\* is the instance's last step.
C1_AtMostOneWrite ==
  \A rec \in Insts :
    /\ Len(rec.writes) <= 1
    /\ rec.result = "error" => rec.pc = "Done" /\ Len(rec.writes) = 1

\* C1 witness: a comment post failed with a transport error and the
\* instance ended with that one attempt
C1_Witness ==
  /\ pipeline = "answering"
  /\ inst.pc = "Done" /\ inst.result = "error" /\ inst.reason = "dispatch-error"
  /\ inst.writes = <<"comment">>
  /\ mainPc = "exited"

\* C2: an issue fetched as closed gets Skip(closed) in both pipelines,
\* whatever its comments, labels and the classifier's signals, and nothing
\* is written for it.
C2_ClosedSuppressed ==
  \A rec \in Insts :
    rec.state = "closed" =>
      /\ rec.writes = <<>>
      /\ rec.verdict \in {"none", "Skip"}
      /\ rec.pc = "Done" => Skipped(rec, "closed")

\* C2 witness: a closed issue whose latest comment is the reporter's, skipped
C2_Witness ==
  /\ pipeline = "answering"
  /\ Skipped(inst, "closed")
  /\ tracker[1].state = "closed"
  /\ tracker[1].comments # <<>>
  /\ tracker[1].comments[Len(tracker[1].comments)] = Comment("reporter", FALSE, <<>>)
  /\ mainPc = "exited"

LastOf(cs) == cs[Len(cs)]

\* An evaluated instance whose latest comment carries the agent marker
MarkedLatest(rec) ==
  /\ pipeline = "answering"
  /\ rec.pc = "Done" /\ rec.state = "open"
  /\ rec.comments # <<>> /\ LastOf(rec.comments).marker

\* Runs with no comment from anyone but the engine leave at most one comment
OneCommentOverRuns == foreign = 0 => landed <= 1

C4_LabelImmutability ==
  \A rec \in Insts :
    pipeline = "triage" =>
      /\ (rec.state = "open" /\ rec.labels # {}) =>
            /\ rec.writes = <<>>
            /\ rec.pc \in {"Evaluating", "Done"}
            /\ rec.pc = "Done" => Skipped(rec, "already-labeled")
            /\ tracker[rec.id].labels = rec.labels
      /\ rec.result = "ok" =>
            /\ rec.writes = <<"label">>
            /\ rec.label \in Labels /\ rec.label \notin rec.labels
            /\ tracker[rec.id].labels = rec.labels \cup {rec.label}
            /\ Cardinality(tracker[rec.id].labels) = Cardinality(rec.labels) + 1

\* C4 witness: a batch that skipped a labelled issue and labelled another
C4_Witness ==
  /\ pipeline = "triage" /\ mode = "batch" /\ mainPc = "exited"
  /\ \E i \in DOMAIN log, j \in DOMAIN log :
       /\ Skipped(log[i], "already-labeled") /\ tracker[log[i].id].labels = {"bug"}
       /\ log[j].result = "ok" /\ tracker[log[j].id].labels = {"documentation"}

\* C5: a search that finds nothing ends the instance as Skip(no-evidence)
\* with no comment; a comment is only ever posted after a search of the same
\* instance returned a document; an instance searches at most once.
C5_NoEvidence ==
  \A rec \in Insts :
    /\ (rec.retrievals >= 1 /\ rec.docs = <<>>) =>
          Skipped(rec, "no-evidence") /\ rec.writes = <<>>
    /\ rec.writes # <<>> /\ pipeline = "answering" =>
          rec.retrievals = 1 /\ rec.docs # <<>>
    /\ rec.retrievals <= 1

\* C5 witness: an open issue with a question of its reporter, nothing found
C5_Witness ==
  /\ pipeline = "answering"
  /\ inst.retrievals = 1 /\ inst.docs = <<>>
  /\ Skipped(inst, "no-evidence")
  /\ inst.verdict = "Skip" /\ inst.state = "open"

C6_WriteNeedsApproval ==
  \A rec \in Insts :
    /\ (env.IS_INTERACTIVE /\ rec.writes # <<>>) => rec.approval = "approved"
    /\ rec.approval \in {"denied", "timeout"} =>
          Skipped(rec, "denied") /\ rec.writes = <<>>
    /\ ~env.IS_INTERACTIVE => rec.approval = "none" /\ rec.pc # "AwaitingApproval"

BatchLimit == IF env.ISSUE_COUNT_TO_PROCESS = "1" THEN 1 ELSE DefaultIssueCount

\* What a finished triage instance must have come to, from what it alone saw
OwnOutcome(rec) ==
  IF rec.state = "" THEN <<"Error", "fetch-error">>
  ELSE IF rec.state = "closed" THEN <<"Skip", "closed">>
  ELSE IF rec.labels # {} THEN <<"Skip", "already-labeled">>
  ELSE IF rec.label = "" THEN <<"Skip", "classification-failure">>
  ELSE IF rec.approval \in {"denied", "timeout"} THEN <<"Skip", "denied">>
  ELSE IF rec.result = "ok" THEN <<"Act", "">>
  ELSE <<"Error", "dispatch-error">>

C7_BatchSequential ==
  mode = "batch" =>
    /\ Len(log) + Len(todo) + (IF Working THEN 1 ELSE 0) <= BatchLimit
    /\ \A i \in DOMAIN log :
         /\ log[i].pc = "Done"
         /\ log[i].id = NumIssues + 1 - i
         /\ <<log[i].verdict, log[i].reason>> = OwnOutcome(log[i])
         /\ log[i].state # "" => log[i].state = tracker[log[i].id].state
    /\ Working => \A i \in DOMAIN log : log[i].id # inst.id
    /\ mainPc = "exited" =>
         Len(log) = (IF BatchLimit < NumIssues THEN BatchLimit ELSE NumIssues)

MdRel(rel) ==
  IF rel[Len(rel)] = ".html" THEN [rel EXCEPT ![Len(rel)] = ".md"] ELSE rel

IndexMdUrl ==
  <<"https:", "/", "/", "github.com", "/", "google", "/", "adk-docs", "/",
    "blob", "/", "main", "/", "docs", "/", "index", ".md">>

C9_MalformedSkips ==
  \A rec \in Insts :
    (\E i \in DOMAIN rec.docs : ~WellFormed(rec.docs[i])) =>
      /\ rec.writes = <<>>
      /\ rec.pc = "Done" => rec.verdict = "Skip"

\* The parsed issue number is no issue number
NoIssueNumber == parse_number_string(env.ISSUE_NUMBER, 0) = 0

\* The entry point aims at one issue: always in the answering pipeline, on
\* EVENT_NAME "issues" with an ISSUE_NUMBER in the triage pipeline
Targeted ==
  \/ pipeline = "answering"
  \/ pipeline = "triage" /\ env.EVENT_NAME = "issues" /\ env.ISSUE_NUMBER # ""

\* C10: a targeted run whose issue number does not parse to a non-zero
\* number ends with the error, the agent never invoked and the tracker never
\* called; in the triage entry point that case is no batch, and a batch is
\* entered only when EVENT_NAME is not "issues" or ISSUE_NUMBER is empty.
C10_InvalidIssueNumber ==
  /\ (Targeted /\ NoIssueNumber /\ mainPc # "start") =>
        /\ mode = "invalid" /\ mainPc = "exited"
        /\ inst = InstIdle /\ log = <<>> /\ todo = <<>>
  /\ (Targeted /\ ~NoIssueNumber /\ mainPc # "start") => mode = "single"
  /\ mode = "batch" =>
        pipeline = "triage" /\ (env.EVENT_NAME # "issues" \/ env.ISSUE_NUMBER = "")

\* C10 witness: the triage entry point on an "issues" event with ISSUE_NUMBER
\* "abc" has returned
C10_Witness ==
  /\ pipeline = "triage"
  /\ env.EVENT_NAME = "issues" /\ env.ISSUE_NUMBER = "abc"
  /\ mode = "invalid" /\ mainPc = "exited" /\ runs = 1

\* The files of the walk that the loop uploads, by position
UploadableFiles == {j \in DOMAIN sync.files : Uploadable(sync.files[j])}

UploadedFiles == {sync.uploaded[k] : k \in DOMAIN sync.uploaded}

\* C11: the sync script runs cleanup, upload, import in that order and stops
\* at the first step that fails: the upload starts only after cleanup
\* returned True, the import is requested only after cleanup and the upload
\* of every file returned True, and the upload returns False at the first
\* file whose upload raises, the later files not uploaded; a failed run may
\* leave the bucket emptied or partly filled but requests no import.
C11_SyncOrder ==
  pipeline = "sync" =>
    /\ sync.order \in {<<>>, <<"cleanup">>, <<"cleanup", "upload">>,
                       <<"cleanup", "upload", "import">>}
    /\ Len(sync.order) >= 2 => sync.cleanup = "true"
    /\ sync.imports <= 1
    /\ sync.imports = 1 =>
         /\ sync.order = <<"cleanup", "upload", "import">>
         /\ sync.cleanup = "true" /\ sync.upload = "true"
         /\ sync.errors = 0
         /\ UploadedFiles = UploadableFiles
         /\ sync.bucket = {ObjectOf(j, sync.files[j]) : j \in UploadableFiles}
    /\ sync.errors <= 1
    /\ sync.errors = 1 =>
         /\ sync.upload = "false" /\ sync.pc = "exited"
         /\ UploadedFiles = {j \in UploadableFiles : j < sync.failedAt}
         /\ \A o \in sync.bucket : o[1] < sync.failedAt
    /\ ("false" \in {sync.cleanup, sync.upload}) =>
         sync.pc = "exited" /\ sync.imports = 0 /\ sync.import = "none"
    /\ sync.pc = "crashed" => sync.imports = 0

\* C11 witness: the second upload raised after the first went through, a
\* third file was still to come, and the run ended with the bucket partly
\* filled and no import
C11_Witness ==
  /\ pipeline = "sync"
  /\ sync.pc = "exited"
  /\ sync.files = <<"md", "py", "py">>
  /\ sync.cleanup = "true" /\ sync.upload = "false"
  /\ sync.failedAt = 2
  /\ sync.bucket = {<<1, "html">>}
  /\ sync.imports = 0

====
